---- MODULE Spec2Model ----
(***************************************************************************)
(* Forced (reference) decoding and the n-best output handlers of SGNMT.    *)
(*   cam/sgnmt/decoding/reference.py   ReferenceDecoder                    *)
(*   cam/sgnmt/output.py               the output handlers                 *)
(* Scores are integers (fixed-point log scores), sums are exact.           *)
(***************************************************************************)
EXTENDS Integers, Sequences, FiniteSets, TLC

VARIABLES
    pc,             \* position of the operation in progress
    err,            \* name of the exception that ended the operation
    k_binding,      \* what the free name k of _expand_hypo resolves to: the module
                    \* binds no k (Unbound); any other value is a binding that the
                    \* importing environment puts into the module's namespace
    scored,         \* candidate ids the ensemble scores
    trgt_sentence,  \* ReferenceDecoder.trgt_sentence
    ens,            \* live state of the predictor ensemble
    hypo,           \* the PartialHypothesis of decode
    full_hypos,     \* Decoder.full_hypos
    steps,          \* history: one record per apply_predictors call
    all_hypos,      \* the n-best lists handed to the output handlers
    sep,            \* NBestSeparateOutputHandler: N, f and the last write_hypos call
    csv,            \* TimeCSVOutputHandler: predictor_names, the files written
    nbest,          \* NBestOutputHandler: predictor_names, the lines written
    ngram,          \* NgramOutputHandler: min_order, max_order, the files written
    fst,            \* FSTOutputHandler: unk_id, the automata written
    stdfst,         \* StandardFSTOutputHandler: unk_id, the automata written
    dirs            \* output directories that exist

decVars == <<pc, err, k_binding, scored, trgt_sentence, ens, hypo, full_hypos, steps>>
outVars == <<all_hypos, sep, csv, nbest, ngram, fst, stdfst, dirs>>
vars == <<decVars, outVars>>

-----------------------------------------------------------------------------
(* Reserved symbol ids (cam.sgnmt.utils) and the vocabulary of the model.  *)

UNK_ID == 0
GO_ID == 1
EOS_ID == 2

\* number of non-reserved word ids
NWords == 2
\* longest target sentence passed to decode (without the appended EOS)
MaxTrgtLen == 2
\* number of predictors in the ensemble
NPred == 2

Words == 3 .. (2 + NWords)
TrgtVocab == Words \cup {EOS_ID}

\* the value of a name that has no binding, and of get_last_word on an empty prefix
Unbound == 0 - 1
NoWord == 0 - 1

RECURSIVE SeqsUpTo(_, _)
SeqsUpTo(S, n) ==
    IF n = 0 THEN {<<>>}
    ELSE LET shorter == SeqsUpTo(S, n - 1)
         IN  shorter \cup {Append(s, x) : s \in {t \in shorter : Len(t) = n - 1}, x \in S}

RECURSIVE SumSeq(_)
SumSeq(s) == IF s = <<>> THEN 0 ELSE s[1] + SumSeq(Tail(s))

Last(s) == s[Len(s)]

-----------------------------------------------------------------------------
(* The predictor ensemble.  Its state is the sequence of consumed symbols; *)
(* every predictor's score is a function of that state and the candidate.  *)

\* score of predictor p for candidate w in ensemble state st
PredScore(p, st, w) == 0 - (1 + ((w * p + 3 * Len(st) + 2 * SumSeq(st)) % 7))

PredWeight(p) == p

\* the raw per-predictor score vector of a candidate: one ScoreEntry per predictor
Breakdown(st, w) == [p \in 1 .. NPred |-> <<PredScore(p, st, w), PredWeight(p)>>]

RECURSIVE WeightedSum(_, _)
WeightedSum(bd, n) ==
    IF n = 0 THEN 0 ELSE bd[n][1] * bd[n][2] + WeightedSum(bd, n - 1)

\* the combination scheme: weighted sum of the predictors' log scores
Combined(st, w) == WeightedSum(Breakdown(st, w), NPred)

\* ascending sequence of the elements of a set of integers
RECURSIVE SortedSeq(_)
SortedSeq(S) ==
    IF S = {} THEN <<>>
    ELSE LET m == CHOOSE x \in S : \A y \in S : x <= y
         IN  <<m>> \o SortedSeq(S \ {m})

\* apply_predictors(): candidate ids, combined score per candidate,
\* per-predictor score vector per candidate; does not change the state
apply_predictors(st) ==
    LET ids == SortedSeq(scored)
    IN  [ids |-> ids,
         posterior |-> [i \in 1 .. Len(ids) |-> Combined(st, ids[i])],
         breakdown |-> [i \in 1 .. Len(ids) |-> Breakdown(st, ids[i])]]

consume(st, w) == Append(st, w)

\* the ensemble-wide snapshot and restore: the snapshot is a copy of the state
get_predictor_states(st) == st
set_predictor_states(states) == states

\* utils.max_(a): the largest element of a
max_(a) == CHOOSE x \in {a[i] : i \in 1 .. Len(a)} : \A i \in 1 .. Len(a) : a[i] <= x

\* utils.binary_search(a, x): the index of x in the sorted a; 0 stands for the
\* failed lookup of an x that a does not hold
binary_search(a, x) ==
    IF \E i \in 1 .. Len(a) : a[i] = x
    THEN CHOOSE i \in 1 .. Len(a) : a[i] = x
    ELSE 0

-----------------------------------------------------------------------------
(* Values stored in a hypothesis's score_breakdown.                        *)

Scalar(x) == [kind |-> "scalar", v |-> x, es |-> <<>>]
Vector(bd) == [kind |-> "vector", v |-> 0, es |-> bd]

PartialHypothesis(states) ==
    [trgt_sentence |-> <<>>, score |-> 0, score_breakdown |-> <<>>,
     predictor_states |-> states]

get_last_word(h) ==
    IF h.trgt_sentence = <<>> THEN NoWord ELSE Last(h.trgt_sentence)

\* Decoder.get_adjusted_score: the identity adjustment
get_adjusted_score(h) == h.score

generate_full_hypothesis(h) ==
    [trgt_sentence |-> h.trgt_sentence, total_score |-> h.score,
     score_breakdown |-> h.score_breakdown]

-----------------------------------------------------------------------------
(* ReferenceDecoder                                                        *)

InitDecoder ==
    /\ pc = "idle"
    /\ err = "none"
    /\ k_binding \in {Unbound} \cup TrgtVocab
    /\ scored \in (SUBSET TrgtVocab) \ {{}}
    /\ trgt_sentence = <<>>
    /\ ens = <<>>
    /\ hypo = PartialHypothesis(get_predictor_states(<<>>))
    /\ full_hypos = <<>>
    /\ steps = <<>>

\* decode, up to the loop
decode(trgt) ==
    /\ pc = "idle"
    /\ trgt_sentence' = trgt \o <<EOS_ID>>
    /\ ens' = <<>>
    /\ hypo' = PartialHypothesis(get_predictor_states(<<>>))
    /\ steps' = <<>>
    /\ pc' = "loop"
    /\ UNCHANGED <<err, k_binding, scored, full_hypos>>
    /\ UNCHANGED outVars

\* the position _expand_hypo reads the stored target at: len(hypo.trgt_sentence),
\* counted from 1 here
next_word_index_past(h) == Len(h.trgt_sentence) + 2
next_word_index(h) == Len(h.trgt_sentence) + 1

\* one iteration of decode's loop (_expand_hypo, lines 39-50 in their order)
_expand_hypo ==
    /\ pc = "loop"
    /\ get_last_word(hypo) # EOS_ID
    /\ LET live == set_predictor_states(hypo.predictor_states)
           next_word == trgt_sentence[next_word_index(hypo)]
       IN  \* line 41: the one call of apply_predictors of the step
           \E out \in {apply_predictors(live)} :
           LET
           step == [scored_on |-> live, required |-> next_word,
                    ids |-> out.ids, posterior |-> out.posterior,
                    breakdown |-> out.breakdown]
           ind == binary_search(out.ids, k_binding)
           max_score == max_(out.posterior)
           snapshot == get_predictor_states(live)
       IN  IF next_word_index(hypo) > Len(trgt_sentence)
           THEN /\ ens' = live
                /\ pc' = "failed"
                /\ err' = "IndexError"
                /\ UNCHANGED <<hypo, steps>>
           ELSE
           /\ steps' = Append(steps, step)
           /\ IF k_binding = Unbound
              THEN /\ ens' = live
                   /\ pc' = "failed"
                   /\ err' = "NameError"
                   /\ UNCHANGED hypo
              ELSE IF ind = 0
              THEN /\ ens' = live
                   /\ pc' = "failed"
                   /\ err' = "SymbolNotScoredError"
                   /\ UNCHANGED hypo
              ELSE /\ hypo' = [predictor_states |-> snapshot,
                               score |-> hypo.score + out.posterior[ind],
                               score_breakdown |->
                                   Append(hypo.score_breakdown, Scalar(out.posterior[ind])),
                               trgt_sentence |-> Append(hypo.trgt_sentence, next_word)]
                   /\ ens' = consume(live, next_word)
                   /\ UNCHANGED <<pc, err>>
    /\ UNCHANGED <<k_binding, scored, trgt_sentence, full_hypos>>
    /\ UNCHANGED outVars

\* decode, after the loop; the returned n-best list is handed to the output handlers
decode_return ==
    /\ pc = "loop"
    /\ get_last_word(hypo) = EOS_ID
    /\ hypo' = [hypo EXCEPT !.score = get_adjusted_score(hypo)]
    /\ full_hypos' = Append(full_hypos, generate_full_hypothesis(hypo'))
    /\ all_hypos' = Append(all_hypos, full_hypos')
    /\ pc' = "done"
    /\ UNCHANGED <<err, k_binding, scored, trgt_sentence, ens, steps>>
    /\ UNCHANGED <<sep, csv, nbest, dirs, ngram, fst, stdfst>>

-----------------------------------------------------------------------------
(* The n-best lists the output handlers receive.  A complete hypothesis    *)
(* holds the sentence (ending in EOS), the score breakdown with one entry  *)
(* per symbol and the total score.                                         *)

\* most n-best lists in one write_hypos call
MaxInputs == 3
\* most hypotheses in one n-best list
MaxHypos == 3
\* largest N of the per-rank handler
MaxRank == 3
\* most write_hypos calls on one handler
MaxWrites == 1

\* the hypothesis a decoder returns for a sentence
Hypothesis(sentence) ==
    [trgt_sentence |-> sentence,
     total_score |-> SumSeq([i \in 1 .. Len(sentence) |->
                                Combined(SubSeq(sentence, 1, i - 1), sentence[i])]),
     score_breakdown |-> [i \in 1 .. Len(sentence) |->
                             Vector(Breakdown(SubSeq(sentence, 1, i - 1), sentence[i]))]]

\* io.decode: the text of a sentence
io_decode(sentence) == <<"text", sentence>>

RECURSIVE Repeat(_, _)
Repeat(w, n) == IF n = 0 THEN <<>> ELSE <<w>> \o Repeat(w, n - 1)

\* the n-best list of size n of input j (from 1): its hypotheses are built from the
\* word 2 + j, rank i (from 0) is that word repeated i times, then EOS
NBestOf(j, n) == [i \in 1 .. n |-> Hypothesis(Repeat(2 + j, i - 1) \o <<EOS_ID>>)]

\* the n-best lists of a run whose inputs have the given numbers of hypotheses
AllHyposOf(sizes) == [j \in 1 .. Len(sizes) |-> NBestOf(j, sizes[j])]

\* sen_indices of a write_hypos call: 0-based, aligned with all_hypos
sen_indices(hs) == [j \in 1 .. Len(hs) |-> j - 1]

\* _mkdir: creates the directory; an existing one is tolerated with a warning
_mkdir(existing, path) == existing \cup {path}

-----------------------------------------------------------------------------
(* Predictor names: strings are sequences of characters.                   *)

\* most names in a predictor-name list
MaxNames == 3

Digit(d) == <<"0", "1", "2", "3", "4", "5", "6", "7", "8", "9">>[d + 1]

\* "%d" % n for n >= 0
RECURSIVE Str(_)
Str(n) == IF n < 10 THEN <<Digit(n)>> ELSE Str(n \div 10) \o <<Digit(n % 10)>>

\* s.replace(a, b) for single characters a, b
replace(s, a, b) == [i \in 1 .. Len(s) |-> IF s[i] = a THEN b ELSE s[i]]

NamePool == {<<"a">>, <<"a", "2">>, <<"a", "_">>, <<"a", "0">>}

\* the names the handlers of a run are built with
DefaultNames == [p \in 1 .. NPred |-> <<"p">> \o Str(p)]

\* the loop of NBestOutputHandler.__init__ from name i on
RECURSIVE NBest_names(_, _, _, _)
NBest_names(predictor_names, i, name_count, out) ==
    IF i > Len(predictor_names) THEN out
    ELSE LET name == predictor_names[i]
             fresh == name \notin DOMAIN name_count
             count == IF fresh THEN 1 ELSE name_count[name] + 1
             final_name == IF fresh THEN name ELSE name \o Str(count)
         IN  NBest_names(predictor_names, i + 1,
                 [n \in DOMAIN name_count \cup {name} |->
                     IF n = name THEN count ELSE name_count[n]],
                 Append(out, replace(final_name, "_", "0")))

\* the loop of TimeCSVOutputHandler.__init__ from name i on
RECURSIVE TimeCSV_names(_, _, _, _)
TimeCSV_names(predictor_names, i, name_count, out) ==
    IF i > Len(predictor_names) THEN out
    ELSE LET name == predictor_names[i]
             fresh == name \notin DOMAIN name_count
             count == IF fresh THEN 1 ELSE name_count[name] + 1
             final_name == IF fresh THEN name ELSE name \o Str(count)
         IN  TimeCSV_names(predictor_names, i + 1,
                 [n \in DOMAIN name_count \cup {name} |->
                     IF n = name THEN count ELSE name_count[n]],
                 Append(out, final_name))

\* a handler object before its constructor has run
NoHandler == [built |-> FALSE, given |-> <<>>, predictor_names |-> <<>>,
              calls |-> 0, files |-> <<>>, err |-> "none", arg |-> <<>>]

NBestOutputHandler_init(predictor_names) ==
    [NoHandler EXCEPT !.built = TRUE, !.given = predictor_names,
         !.predictor_names = NBest_names(predictor_names, 1, <<>>, <<>>)]

TimeCSVOutputHandler_init(predictor_names) ==
    [NoHandler EXCEPT !.built = TRUE, !.given = predictor_names,
         !.predictor_names = TimeCSV_names(predictor_names, 1, <<>>, <<>>)]

NBest_new(predictor_names) ==
    /\ ~nbest.built
    /\ nbest' = NBestOutputHandler_init(predictor_names)
    /\ UNCHANGED <<all_hypos, sep, csv, dirs, ngram, fst, stdfst>>
    /\ UNCHANGED decVars

TimeCSV_new(predictor_names) ==
    /\ ~csv.built
    /\ csv' = TimeCSVOutputHandler_init(predictor_names)
    /\ UNCHANGED <<all_hypos, sep, nbest, dirs, ngram, fst, stdfst>>
    /\ UNCHANGED decVars

-----------------------------------------------------------------------------
(* NBestOutputHandler.write_hypos (Moses n-best format)                    *)

\* s[i][0] of a breakdown entry is defined for a per-predictor vector only
Subscriptable(s, i) == s.kind = "vector" /\ i \in 1 .. Len(s.es)

NBest_line(names, idx, h) ==
    IF \E s \in 1 .. Len(h.score_breakdown), i \in 1 .. Len(names) :
           ~Subscriptable(h.score_breakdown[s], i)
    THEN [err |-> "TypeError", line |-> <<>>]
    ELSE [err |-> "none",
          line |-> <<idx, io_decode(h.trgt_sentence),
                     [i \in 1 .. Len(names) |->
                         <<names[i], SumSeq([s \in 1 .. Len(h.score_breakdown) |->
                                                h.score_breakdown[s].es[i][1]])>>],
                     h.total_score>>]

\* the lines of all hypotheses of all inputs, up to the first that raises
RECURSIVE NBest_loop(_, _, _, _, _)
NBest_loop(names, hs, j, i, lines) ==
    IF j > Len(hs) THEN [lines |-> lines, err |-> "none"]
    ELSE IF i > Len(hs[j]) THEN NBest_loop(names, hs, j + 1, 1, lines)
    ELSE LET r == NBest_line(names, sen_indices(hs)[j], hs[j][i])
         IN  IF r.err # "none" THEN [lines |-> lines, err |-> r.err]
             ELSE NBest_loop(names, hs, j, i + 1, Append(lines, r.line))

NBest_write_hypos ==
    /\ nbest.built
    /\ nbest.calls < MaxWrites
    /\ LET r == NBest_loop(nbest.predictor_names, all_hypos, 1, 1, <<>>)
       IN  nbest' = [nbest EXCEPT !.calls = @ + 1, !.files = <<r.lines>>,
                                  !.err = r.err, !.arg = all_hypos]
    /\ UNCHANGED <<all_hypos, sep, csv, dirs, ngram, fst, stdfst>>
    /\ UNCHANGED decVars

-----------------------------------------------------------------------------
(* NBestSeparateOutputHandler                                              *)

\* __init__: paths for N files; the attribute f is not set.  calls, err, arg,
\* written and ready record the last write_hypos call: its outcome, its argument,
\* the lines it wrote, and whether the files were open when it was made.
NBestSeparate_init(N) ==
    [N |-> N, f_set |-> FALSE, closed |-> FALSE, f |-> <<>>,
     calls |-> 0, err |-> "none", arg |-> <<>>, written |-> <<>>, ready |-> FALSE]

\* as NBestSeparate_pad, but repeating the first hypothesis
RECURSIVE NBestSeparate_pad_first(_, _)
NBestSeparate_pad_first(hypos, nfiles) ==
    IF Len(hypos) < nfiles
    THEN NBestSeparate_pad_first(Append(hypos, hypos[1]), nfiles)
    ELSE hypos

\* the while loop of write_hypos: hypos.append(hypos[-1]) until len(self.f)
RECURSIVE NBestSeparate_pad(_, _)
NBestSeparate_pad(hypos, nfiles) ==
    IF Len(hypos) < nfiles
    THEN NBestSeparate_pad(Append(hypos, hypos[Len(hypos)]), nfiles)
    ELSE hypos

\* the for loop of write_hypos from input j on; written are the lines of this call
RECURSIVE NBestSeparate_loop(_, _, _, _, _)
NBestSeparate_loop(h, hs, j, f, written) ==
    IF j > Len(hs)
    THEN [hs |-> hs, f |-> f, written |-> written, err |-> "none"]
    ELSE IF Len(hs[j]) < Len(f) /\ Len(hs[j]) = 0
    THEN [hs |-> hs, f |-> f, written |-> written, err |-> "IndexError"]
    ELSE LET hypos == NBestSeparate_pad(hs[j], Len(f))
             hs2 == [hs EXCEPT ![j] = hypos]
             line(i) == io_decode(hypos[i].trgt_sentence)
         IN  IF Len(f) > 0 /\ h.closed
             THEN [hs |-> hs2, f |-> f, written |-> written, err |-> "ValueError"]
             ELSE NBestSeparate_loop(h, hs2, j + 1,
                      [i \in 1 .. Len(f) |-> Append(f[i], line(i))],
                      [i \in 1 .. Len(f) |-> Append(written[i], line(i))])

NBestSeparate_open_file ==
    /\ sep' = [sep EXCEPT !.f_set = TRUE, !.closed = FALSE,
                          !.f = [i \in 1 .. sep.N |-> <<>>]]
    /\ UNCHANGED <<all_hypos, csv, nbest, dirs, ngram, fst, stdfst>>
    /\ UNCHANGED decVars

NBestSeparate_close_file ==
    /\ sep.f_set
    /\ ~sep.closed
    /\ sep' = [sep EXCEPT !.closed = TRUE]
    /\ UNCHANGED <<all_hypos, csv, nbest, dirs, ngram, fst, stdfst>>
    /\ UNCHANGED decVars

NBestSeparate_write_hypos ==
    /\ sep.calls < MaxWrites
    /\ IF ~sep.f_set
       THEN /\ sep' = [sep EXCEPT !.calls = @ + 1, !.err = "AttributeError",
                                  !.arg = all_hypos, !.written = <<>>,
                                  !.ready = FALSE]
            /\ UNCHANGED all_hypos
       ELSE LET \* if not self.f: self.open_file()
                h == IF sep.f = <<>> THEN [sep EXCEPT !.closed = FALSE] ELSE sep
                r == NBestSeparate_loop(h, all_hypos, 1, h.f,
                                        [i \in 1 .. Len(h.f) |-> <<>>])
            IN  /\ sep' = [h EXCEPT !.calls = @ + 1, !.err = r.err, !.f = r.f,
                                    !.arg = all_hypos, !.written = r.written,
                                    !.ready = ~h.closed]
                /\ all_hypos' = r.hs
    /\ UNCHANGED <<csv, nbest, dirs, ngram, fst, stdfst>>
    /\ UNCHANGED decVars

-----------------------------------------------------------------------------
(* TimeCSVOutputHandler.write_hypos                                        *)

\* one cell of a CSV row: a number, or the placeholder "-"
Cell(x) == [dash |-> FALSE, v |-> x]
Dash == [dash |-> TRUE, v |-> 0]

RECURSIVE Flatten(_)
Flatten(ss) == IF ss = <<>> THEN <<>> ELSE ss[1] \o Flatten(Tail(ss))

\* the header cells after "Time": per hypothesis the names, then the weight names
TimeCSV_header(names, hypo_count) ==
    Flatten([i \in 1 .. hypo_count |->
        [n \in 1 .. Len(names) |-> [name |-> names[n], rank |-> i, weight |-> FALSE]]
        \o [n \in 1 .. Len(names) |-> [name |-> names[n], rank |-> i, weight |-> TRUE]]])

\* the cells of one hypothesis in the row of position pos (from 0)
TimeCSV_cells(h, pos, n_predictors) ==
    IF pos >= Len(h.score_breakdown)
    THEN [c \in 1 .. 2 * n_predictors |-> Dash]
    ELSE [p \in 1 .. n_predictors |->
             Cell(SumSeq([s \in 1 .. pos + 1 |-> h.score_breakdown[s].es[p][1]]))]
         \o [p \in 1 .. n_predictors |-> Cell(h.score_breakdown[pos + 1].es[p][2])]

\* max of a non-empty set of numbers
MaxOf(S) == CHOOSE x \in S : \A y \in S : y <= x

\* the file of one input: header, then one row per position 0..max_len;
\* max([]) of an empty n-best list raises after the header is written
TimeCSV_file(names, sen_idx, hypos) ==
    LET header == TimeCSV_header(names, Len(hypos))
    IN  IF hypos = <<>>
        THEN [name |-> sen_idx + 1, header |-> header, rows |-> <<>>, err |-> "ValueError"]
        ELSE LET max_len == MaxOf({Len(hypos[i].trgt_sentence) : i \in 1 .. Len(hypos)})
             IN  [name |-> sen_idx + 1, header |-> header,
                  rows |-> [r \in 1 .. max_len + 1 |->
                              Flatten([i \in 1 .. Len(hypos) |->
                                  TimeCSV_cells(hypos[i], r - 1, Len(names))])],
                  err |-> "none"]

\* the loop over the inputs from j on: stops at the first file that raises
RECURSIVE TimeCSV_loop(_, _, _, _)
TimeCSV_loop(names, hs, j, files) ==
    IF j > Len(hs) THEN [files |-> files, err |-> "none"]
    ELSE LET file == TimeCSV_file(names, sen_indices(hs)[j], hs[j])
             out == Append(files, [name |-> file.name, header |-> file.header,
                                   rows |-> file.rows])
         IN  IF file.err # "none" THEN [files |-> out, err |-> file.err]
             ELSE TimeCSV_loop(names, hs, j + 1, out)

TimeCSV_write_hypos ==
    /\ csv.built
    /\ csv.calls < MaxWrites
    /\ LET r == TimeCSV_loop(csv.predictor_names, all_hypos, 1, <<>>)
       IN  csv' = [csv EXCEPT !.calls = @ + 1, !.files = r.files, !.err = r.err,
                              !.arg = all_hypos]
    /\ dirs' = _mkdir(dirs, "TimeCSV")
    /\ UNCHANGED <<all_hypos, sep, nbest, ngram, fst, stdfst>>
    /\ UNCHANGED decVars

-----------------------------------------------------------------------------
(* NgramOutputHandler                                                      *)

\* largest n-gram order a handler is built with
MaxOrder == 3
\* longest hypothesis (without EOS) in the lists of the n-gram and lattice handlers
MaxBody == 2
\* most hypotheses in one of these lists
MaxListLen == 2

\* ' '.join(map(str, syms))
RECURSIVE Join(_)
Join(syms) ==
    IF syms = <<>> THEN <<>>
    ELSE IF Len(syms) = 1 THEN Str(syms[1])
    ELSE Str(syms[1]) \o <<" ">> \o Join(Tail(syms))

\* hist[-order:]: the last order elements, all of hist when order is 0 or
\* not smaller than len(hist)
LastSlice(hist, order) ==
    IF order = 0 \/ order >= Len(hist) THEN hist
    ELSE SubSeq(hist, Len(hist) - order + 1, Len(hist))

\* the n-best lists over a symbol set: hypotheses of at most MaxBody symbols plus EOS
ListsOver(S) ==
    SeqsUpTo({Hypothesis(body \o <<EOS_ID>>) : body \in SeqsUpTo(S, MaxBody)}, MaxListLen)

NgramOutputHandler_init(min_order, max_order) ==
    [min_order |-> min_order, max_order |-> max_order,
     calls |-> 0, files |-> <<>>, arg |-> <<>>]

\* the ngrams dict of one input after the collecting loops:
\* n-gram string -> the indices of the hypotheses it was seen in
Ngram_collect(h, hypos) ==
    LET sen_eos(i) == <<GO_ID>> \o hypos[i].trgt_sentence \o <<EOS_ID>>
        seen == UNION {UNION {{<<Join(LastSlice(SubSeq(sen_eos(i), 1, pos), order)), i>> :
                                  order \in h.min_order .. h.max_order} :
                              pos \in 1 .. Len(sen_eos(i))} :
                       i \in 1 .. Len(hypos)}
    IN  [key \in {e[1] : e \in seen} |-> {e[2] : e \in {x \in seen : x[1] = key}}]

\* one file per input, named by the 1-based index; a line is written for every key
\* of the dict, its probability computed from the scores of the hypotheses of the key
Ngram_write_hypos ==
    /\ ngram.calls < MaxWrites
    /\ ngram' = [ngram EXCEPT !.calls = @ + 1, !.arg = all_hypos,
                     !.files = [j \in 1 .. Len(all_hypos) |->
                                   [name |-> sen_indices(all_hypos)[j] + 1,
                                    lines |-> Ngram_collect(ngram, all_hypos[j])]]]
    /\ dirs' = _mkdir(dirs, "ngram")
    /\ UNCHANGED <<all_hypos, sep, csv, nbest, fst, stdfst>>
    /\ UNCHANGED decVars

-----------------------------------------------------------------------------
(* FSTOutputHandler and StandardFSTOutputHandler                           *)

\* the null label of the automaton library
EPSILON == 0

\* the ids a lattice handler may be given for UNK
UnkIds == {UNK_ID, 9, 99}

FSTOutputHandler_init(unk_id) ==
    [unk_id |-> unk_id, calls |-> 0, files |-> <<>>, err |-> "none", arg |-> <<>>]

StandardFSTOutputHandler_init(unk_id) ==
    [unk_id |-> unk_id, calls |-> 0, files |-> <<>>, err |-> "none", arg |-> <<>>]

Arc(from, to, ilabel, olabel, weight) ==
    [from |-> from, to |-> to, ilabel |-> ilabel, olabel |-> olabel, weight |-> weight]

\* write_weight: 0, then index and negated score of every predictor
write_weight(score_breakdown) ==
    <<0>> \o Flatten([idx \in 1 .. Len(score_breakdown.es) |->
                         <<idx, 0 - score_breakdown.es[idx][1]>>])

\* the arcs FSTOutputHandler.write_hypos writes for one hypothesis when the next
\* free state id is id: start arc, one arc per breakdown entry but the last, final arc
FST_chain(h, hyp, id) ==
    LET syms == hyp.trgt_sentence
        n == Len(hyp.score_breakdown)
    IN  <<Arc(0, id, GO_ID, GO_ID, <<>>)>>
        \o [pos \in 1 .. n - 1 |->
               Arc(id + pos - 1, id + pos, syms[pos], syms[pos],
                   write_weight(hyp.score_breakdown[pos]))]
        \o <<Arc(id + n - 1, 1, EOS_ID, EOS_ID, write_weight(hyp.score_breakdown[n]))>>

\* the arcs StandardFSTOutputHandler.write_hypos writes for one hypothesis: start
\* arc with the negated total score, one arc per symbol, final arc
StandardFST_chain(h, hyp, id) ==
    LET syms == hyp.trgt_sentence
    IN  <<Arc(0, id, GO_ID, GO_ID, <<0 - hyp.total_score>>)>>
        \o [pos \in 1 .. Len(syms) |->
               Arc(id + pos - 1, id + pos, syms[pos], syms[pos], <<>>)]
        \o <<Arc(id + Len(syms), 1, EOS_ID, EOS_ID, <<>>)>>

\* the chains of the hypotheses of one input from hypothesis i on;
\* a chain of n arcs uses n - 1 new state ids
RECURSIVE FST_chains(_, _, _, _, _)
FST_chains(h, hypos, i, next_free_id, chains) ==
    IF i > Len(hypos) THEN chains
    ELSE LET chain == FST_chain(h, hypos[i], next_free_id)
         IN  FST_chains(h, hypos, i + 1, next_free_id + Len(chain) - 1,
                        Append(chains, chain))

RECURSIVE StandardFST_chains(_, _, _, _, _)
StandardFST_chains(h, hypos, i, next_free_id, chains) ==
    IF i > Len(hypos) THEN chains
    ELSE LET chain == StandardFST_chain(h, hypos[i], next_free_id)
         IN  StandardFST_chains(h, hypos, i + 1, next_free_id + Len(chain) - 1,
                                Append(chains, chain))

\* write_fst: rmepsilon drops the arcs labelled with the null symbol; determinize
\* and minimize keep the label sequences of the paths.  The persisted automaton is
\* kept by the chains compiled and by the label sequence of each path.
write_fst(chains, name) ==
    [name |-> name, chains |-> chains,
     paths |-> [c \in 1 .. Len(chains) |->
                  SelectSeq([a \in 1 .. Len(chains[c]) |-> chains[c][a].ilabel],
                            LAMBDA l : l # EPSILON)]]

FST_write_hypos ==
    /\ fst.calls < MaxWrites
    /\ fst' = [fst EXCEPT !.calls = @ + 1, !.arg = all_hypos,
                  !.files = [j \in 1 .. Len(all_hypos) |->
                                write_fst(FST_chains(fst, all_hypos[j], 1, 2, <<>>),
                                          sen_indices(all_hypos)[j] + 1)]]
    /\ dirs' = _mkdir(dirs, "FST")
    /\ UNCHANGED <<all_hypos, sep, csv, nbest, ngram, stdfst>>
    /\ UNCHANGED decVars

StandardFST_write_hypos ==
    /\ stdfst.calls < MaxWrites
    /\ stdfst' = [stdfst EXCEPT !.calls = @ + 1, !.arg = all_hypos,
                     !.files = [j \in 1 .. Len(all_hypos) |->
                                   write_fst(StandardFST_chains(stdfst, all_hypos[j], 1, 2, <<>>),
                                             sen_indices(all_hypos)[j] + 1)]]
    /\ dirs' = _mkdir(dirs, "FST")
    /\ UNCHANGED <<all_hypos, sep, csv, nbest, ngram, fst>>
    /\ UNCHANGED decVars

-----------------------------------------------------------------------------
(* Initial states of the parts.                                            *)

DecIdle ==
    /\ pc = "idle"
    /\ err = "none"
    /\ k_binding = Unbound
    /\ scored = {}
    /\ trgt_sentence = <<>>
    /\ ens = <<>>
    /\ hypo = PartialHypothesis(<<>>)
    /\ full_hypos = <<>>
    /\ steps = <<>>

LatticeIdle ==
    /\ ngram = NgramOutputHandler_init(1, 1)
    /\ fst = FSTOutputHandler_init(UNK_ID)
    /\ stdfst = StandardFSTOutputHandler_init(UNK_ID)

HandlersIdle ==
    /\ sep = NBestSeparate_init(0)
    /\ csv = TimeCSVOutputHandler_init(DefaultNames)
    /\ nbest = NBestOutputHandler_init(DefaultNames)

OutIdle ==
    /\ all_hypos = <<>>
    /\ sep = NBestSeparate_init(0)
    /\ csv = TimeCSVOutputHandler_init(DefaultNames)
    /\ nbest = NBestOutputHandler_init(DefaultNames)
    /\ LatticeIdle
    /\ dirs = {}

\* the per-rank, CSV and Moses handlers of one run, and the n-best lists of its inputs
InitNBest ==
    /\ DecIdle
    /\ all_hypos \in {AllHyposOf(sizes) : sizes \in SeqsUpTo(0 .. MaxHypos, MaxInputs)}
    /\ sep \in {NBestSeparate_init(N) : N \in 0 .. MaxRank}
    /\ csv = TimeCSVOutputHandler_init(DefaultNames)
    /\ nbest = NBestOutputHandler_init(DefaultNames)
    /\ LatticeIdle
    /\ dirs = {}

NextNBest ==
    \/ NBestSeparate_open_file
    \/ NBestSeparate_close_file
    \/ NBestSeparate_write_hypos
    \/ TimeCSV_write_hypos
    \/ NBest_write_hypos

SpecNBest == InitNBest /\ [][NextNBest]_vars

\* the per-rank handler alone
NextSeparate ==
    \/ NBestSeparate_open_file
    \/ NBestSeparate_close_file
    \/ NBestSeparate_write_hypos

SpecSeparate == InitNBest /\ [][NextSeparate]_vars

\* the constructors of the Moses and CSV handlers on a predictor-name list
InitNames ==
    /\ DecIdle
    /\ all_hypos = <<>>
    /\ sep = NBestSeparate_init(0)
    /\ csv = NoHandler
    /\ nbest = NoHandler
    /\ LatticeIdle
    /\ dirs = {}

NextNames ==
    \/ \E names \in SeqsUpTo(NamePool, MaxNames) : NBest_new(names)
    \/ \E names \in SeqsUpTo(NamePool, MaxNames) : TimeCSV_new(names)

SpecNames == InitNames /\ [][NextNames]_vars

\* the two lattice handlers of one run, built with the same unk_id
InitFst ==
    /\ DecIdle
    /\ HandlersIdle
    /\ all_hypos \in {<<hypos>> : hypos \in ListsOver({UNK_ID} \cup Words)}
    /\ ngram = NgramOutputHandler_init(1, 1)
    /\ \E unk_id \in UnkIds :
           /\ fst = FSTOutputHandler_init(unk_id)
           /\ stdfst = StandardFSTOutputHandler_init(unk_id)
    /\ dirs = {}

NextFst ==
    \/ FST_write_hypos
    \/ StandardFST_write_hypos

SpecFst == InitFst /\ [][NextFst]_vars

\* the n-gram handler
InitNgram ==
    /\ DecIdle
    /\ HandlersIdle
    /\ all_hypos \in {<<hypos>> : hypos \in ListsOver(Words)}
    /\ ngram \in {NgramOutputHandler_init(lo, hi) : lo \in 1 .. MaxOrder, hi \in 1 .. MaxOrder}
    /\ fst = FSTOutputHandler_init(UNK_ID)
    /\ stdfst = StandardFSTOutputHandler_init(UNK_ID)
    /\ dirs = {}

NextNgram == Ngram_write_hypos

SpecNgram == InitNgram /\ [][NextNgram]_vars

-----------------------------------------------------------------------------
(* Specifications                                                          *)

Next ==
    \/ \E trgt \in SeqsUpTo(TrgtVocab, MaxTrgtLen) : decode(trgt)
    \/ _expand_hypo
    \/ decode_return
    \/ pc = "done" /\ NBest_write_hypos

Init == InitDecoder /\ OutIdle

Spec == Init /\ [][Next]_vars

\* decode runs to its end once called: the interpreter executes the loop of
\* decode and the statements after it without being suspended for ever
SpecLive ==
    Init /\ [][Next]_vars /\ WF_vars(_expand_hypo) /\ WF_vars(decode_return)

-----------------------------------------------------------------------------
(* Properties                                                              *)

\* index of x in the sequence a (x occurs in a)
IndexOf(a, x) == CHOOSE i \in 1 .. Len(a) : a[i] = x
Occurs(a, x) == \E i \in 1 .. Len(a) : a[i] = x

C2_AbsentSymbolFails ==
    \A i \in 1 .. Len(steps) :
        ~Occurs(steps[i].ids, steps[i].required) =>
            /\ pc = "failed"
            /\ err = "SymbolNotScoredError"
            /\ Len(hypo.trgt_sentence) = i - 1
            /\ Len(hypo.score_breakdown) = i - 1

\* the target ends in its only EOS, and the ensemble scores every symbol of it
WellFormedTarget ==
    /\ trgt_sentence # <<>>
    /\ \A i \in 1 .. Len(trgt_sentence) - 1 : trgt_sentence[i] # EOS_ID
    /\ \A i \in 1 .. Len(trgt_sentence) : trgt_sentence[i] \in scored

\* the combined score apply_predictors gave the required symbol at a step
RequiredScore(step) == step.posterior[IndexOf(step.ids, step.required)]

\* C3: forced decoding of a target of length L (EOS included) returns a hypothesis
\* with L breakdown entries whose cumulative score is the sum over the steps of
\* the combined score of the required symbol.
C3_ExactScore ==
    (pc \in {"done", "failed"} /\ WellFormedTarget) =>
        /\ pc = "done"
        /\ Len(hypo.score_breakdown) = Len(trgt_sentence)
        /\ hypo.score = SumSeq([i \in 1 .. Len(steps) |-> RequiredScore(steps[i])])

Labels(chain) == [a \in 1 .. Len(chain) |-> chain[a].ilabel]

\* C5: for a hypothesis ending in EOS both lattice builders create chains with the
\* same number of arcs and the same labels: the start symbol, then the symbols of
\* the hypothesis, the last of them the one EOS arc into the final state.
C5_SameChains ==
    (fst.calls > 0 /\ stdfst.calls > 0) =>
        \A j \in 1 .. Len(all_hypos) : \A i \in 1 .. Len(all_hypos[j]) :
            LET syms == all_hypos[j][i].trgt_sentence
                sparse == fst.files[j].chains[i]
                standard == stdfst.files[j].chains[i]
            IN  Last(syms) = EOS_ID =>
                    /\ Len(standard) = Len(sparse)
                    /\ Labels(standard) = Labels(sparse)
                    /\ Labels(standard) = <<GO_ID>> \o syms

\* every arc a handler built from an UNK symbol of a hypothesis carries unk_id,
\* and with an unk_id that is not the null label epsilon removal drops no arc
UnkRelabelled(h) ==
    \A j \in 1 .. Len(h.files) : \A i \in 1 .. Len(h.files[j].chains) :
        LET syms == h.arg[j][i].trgt_sentence
            chain == h.files[j].chains[i]
        IN  /\ \A a \in 1 .. Len(chain) - 2 :
                   (a <= Len(syms) /\ syms[a] = UNK_ID) =>
                       /\ chain[a + 1].ilabel = h.unk_id
                       /\ chain[a + 1].olabel = h.unk_id
            /\ h.unk_id # EPSILON => h.files[j].paths[i] = Labels(chain)

\* C6: in both lattice builders an arc built from a hypothesis symbol that is the
\* unknown-symbol id is labelled with the handler's unk_id.
C6_UnkRelabelled == UnkRelabelled(fst) /\ UnkRelabelled(stdfst)

\* C7: after write_hypos of the per-rank handler over N n-best lists every one of
\* the R files has received N lines, line j of file i being hypothesis i of input j
\* when the input has it, and the input's last hypothesis otherwise.
C7_RankFilesAligned ==
    (sep.calls > 0 /\ sep.err = "none") =>
        /\ Len(sep.written) = sep.N
        /\ \A i \in 1 .. sep.N :
               /\ Len(sep.written[i]) = Len(sep.arg)
               /\ \A j \in 1 .. Len(sep.arg) :
                      sep.written[i][j] =
                          io_decode((IF i <= Len(sep.arg[j]) THEN sep.arg[j][i]
                                     ELSE Last(sep.arg[j])).trgt_sentence)

\* C7 witness: the call over lists of sizes 3, 1, 2 with three rank files returned
C7_Witness ==
    /\ sep.calls > 0
    /\ sep.err = "none"
    /\ sep.N = 3
    /\ [j \in 1 .. Len(sep.arg) |-> Len(sep.arg[j])] = <<3, 1, 2>>

\* C8: write_hypos of the per-rank handler (its files open) and of the CSV handler
\* never raises, whatever the lengths of the n-best lists, the empty list included.
C8_ShortListsNeverRaise ==
    /\ (sep.calls > 0 /\ sep.ready) => sep.err = "none"
    /\ csv.calls > 0 => csv.err = "none"

\* the contiguous subsequences of s of a length in lo .. hi
Subsequences(s, lo, hi) ==
    {SubSeq(s, ab[1], ab[2]) :
        ab \in {x \in (1 .. Len(s)) \X (1 .. Len(s)) :
                    x[1] <= x[2] /\ x[2] - x[1] + 1 >= lo /\ x[2] - x[1] + 1 <= hi}}

\* C11: decode terminates for every finite target: the loop makes at most
\* len(target) + 1 expansion steps, never reads the stored target past its end,
\* emits no symbol after an end-of-sequence symbol, and a decode that has entered
\* its loop ends (it returns, or an expansion step raises).
C11_LoopBounded ==
    /\ Len(steps) <= Len(trgt_sentence)
    /\ Len(hypo.trgt_sentence) <= Len(trgt_sentence)
    /\ err # "IndexError"
    /\ \A i \in 1 .. Len(hypo.trgt_sentence) - 1 : hypo.trgt_sentence[i] # EOS_ID
    /\ pc = "done" => get_last_word(hypo) = EOS_ID

C12_ListsUnchanged ==
    /\ sep.calls > 0 => all_hypos = sep.arg
    /\ csv.calls > 0 => all_hypos = csv.arg
    /\ nbest.calls > 0 => all_hypos = nbest.arg
    /\ (sep.calls > 0 /\ nbest.calls > 0) =>
           nbest.files = <<NBest_loop(nbest.predictor_names, sep.arg, 1, 1, <<>>).lines>>

\* C9: the n-grams written for an input are exactly the contiguous subsequences of
\* length min_order .. max_order of the padded hypotheses (GO, symbols, EOS).
C9_NgramsOfOrder ==
    ngram.calls > 0 =>
        \A j \in 1 .. Len(ngram.files) :
            DOMAIN ngram.files[j].lines =
                UNION {{Join(g) : g \in Subsequences(
                                     <<GO_ID>> \o ngram.arg[j][i].trgt_sentence \o <<EOS_ID>>,
                                     ngram.min_order, ngram.max_order)} :
                       i \in 1 .. Len(ngram.arg[j])}

\* the number of occurrences of names[i] among names[1..i]
Occurrence(names, i) == Cardinality({x \in 1 .. i : names[x] = names[i]})

Deduplicated(h) ==
    h.built =>
        /\ Len(h.predictor_names) = Len(h.given)
        /\ \A a, b \in 1 .. Len(h.predictor_names) :
               a # b => h.predictor_names[a] # h.predictor_names[b]
        /\ \A i \in 1 .. Len(h.given) :
               h.predictor_names[i] =
                   IF Occurrence(h.given, i) = 1 THEN h.given[i]
                   ELSE h.given[i] \o Str(Occurrence(h.given, i))

\* C10: the names both constructors produce are pairwise distinct, in the input
\* order, the first occurrence of a name kept and its k-th suffixed with k.
C10_NamesDeduplicated == Deduplicated(nbest) /\ Deduplicated(csv)

====
